---- MODULE Spec2Model ----
(***************************************************************************)
(* A model of the CHIP-8 interpreter of RonaldDijks/chip8-rust.            *)
(*                                                                         *)
(* The interpreter exists in two revisions in the source tree: the module  *)
(* src/cpu.rs and the copy inside src/main.rs.  They differ in the decode  *)
(* table (only cpu.rs has the Bnnn arm) and in what the fall-through arm   *)
(* does (cpu.rs panics, main.rs prints and spins in `loop {}`).  The       *)
(* variable `revision` says which of the two is running.                   *)
(*                                                                         *)
(* The driver (main) constructs the Cpu, loads one program image and then  *)
(* calls tick() once per event-loop turn.                                  *)
(***************************************************************************)
EXTENDS Integers, Sequences, FiniteSets, TLC

VARIABLES
    memory,         \* Cpu.memory: [u8; 4096], held as its nonzero cells
    display,        \* Cpu.display.pixels: [[bool; 64]; 32], held as the set
                    \* of the << y, x >> whose pixel is on
    pc,             \* Cpu.pc: u16
    index,          \* Cpu.index: u16
    registers,      \* Cpu.registers: [u8; 16]
    stack,          \* Cpu.stack: [u16; 16]
    stack_pointer,  \* Cpu.stack_pointer: usize
    delay_timer,    \* Cpu.delay_timer: u8
    rom,            \* the program image handed to load(): a sequence of bytes
    revision,       \* which copy of the interpreter runs: "cpu.rs" or "main.rs"
    phase,          \* driver position: "new" (constructed), "loaded", "ticking"
    outcome,        \* how the last call ended: "ok", "panic" or "hang"
    opcode,         \* the word fetched by the last tick(), NoOpcode if none
    handler,        \* the match arm the last tick() took, "none" if none
    prev,           \* the Cpu fields as they were when the last tick() began
    steps,          \* number of tick() calls made so far
    open_calls,     \* history: the return addresses (call address + 2) of the
                    \* 2nnn calls completed so far and not yet matched by a
                    \* completed 00EE, oldest first
    quiet           \* history: how many tick() calls in a row, up to now, have
                    \* returned without running Fx15 (counted up to 255)

vars == << memory, display, pc, index, registers, stack, stack_pointer,
           delay_timer, rom, revision, phase, outcome, opcode, handler,
           prev, steps, open_calls, quiet >>

\* ---------------------------------------------------------------- constants

MEMORY_SIZE == 4096
PC_START == 512
FONT_LEN == 80
WIDTH == 64
HEIGHT == 32
NUM_REGISTERS == 16
STACK_SIZE == 16
U8 == 256
U16 == 65536
\* usize::MAX, the value 0usize - 1 wraps to when overflow checks are off.
\* It is 2^64 - 1 on the build target, beyond the model checker's integers;
\* -1 stands for it (it is only ever compared against array lengths).
USIZE_MAX == -1
NoOpcode == -1

FONT ==
    << 240, 144, 144, 144, 240,
        32,  96,  32,  32, 112,
       240,  16, 240, 128, 240,
       240,  16, 240,  16, 240,
       144, 144, 240,  16,  16,
       240, 128, 240,  16, 240,
       240, 128, 240, 144, 240,
       240,  16,  32,  64,  64,
       240, 144, 240, 144, 240,
       240, 144, 240,  16, 240,
       240, 144, 240, 144, 144,
       224, 144, 224, 144, 224,
       240, 128, 128, 128, 240,
       224, 144, 144, 144, 224,
       240, 128, 240, 128, 240,
       240, 128, 240, 128, 128 >>

\* ------------------------------------------------------------ bit operations

Bit(v, k) == (v \div (2 ^ k)) % 2

BitAnd(a, b) ==
    LET B(k) == Bit(a, k) * Bit(b, k)
    IN  B(0) + 2 * B(1) + 4 * B(2) + 8 * B(3)
        + 16 * B(4) + 32 * B(5) + 64 * B(6) + 128 * B(7)

BitOr(a, b) ==
    LET B(k) == IF Bit(a, k) + Bit(b, k) > 0 THEN 1 ELSE 0
    IN  B(0) + 2 * B(1) + 4 * B(2) + 8 * B(3)
        + 16 * B(4) + 32 * B(5) + 64 * B(6) + 128 * B(7)

BitXor(a, b) ==
    LET B(k) == (Bit(a, k) + Bit(b, k)) % 2
    IN  B(0) + 2 * B(1) + 4 * B(2) + 8 * B(3)
        + 16 * B(4) + 32 * B(5) + 64 * B(6) + 128 * B(7)

\* u8::overflowing_add: the wrapped sum and whether it overflowed.
overflowing_add(a, b) ==
    [value |-> (a + b) % U8, overflowed |-> IF a + b >= U8 THEN 1 ELSE 0]

\* ------------------------------------------------------------- the Cpu value

\* The fields of a Cpu as one record, the `self` of the methods below.
Self ==
    [memory |-> memory, display |-> display, pc |-> pc, index |-> index,
     registers |-> registers, stack |-> stack,
     stack_pointer |-> stack_pointer, delay_timer |-> delay_timer]

\* A method's result: the Cpu it leaves behind and how it ended.
Ok(self) == [cpu |-> self, outcome |-> "ok"]
Panic(self) == [cpu |-> self, outcome |-> "panic"]
Hang(self) == [cpu |-> self, outcome |-> "hang"]

\* The byte array memory: [u8; 4096] is held as the function from the
\* addresses of its nonzero cells to their values; every other cell of
\* 0 .. 4095 is zero.  Two arrays are equal exactly when their maps are.
MemRead(m, a) == IF a \in DOMAIN m THEN m[a] ELSE 0

MemWrite(m, a, v) ==
    LET d == IF v = 0 THEN DOMAIN m \ {a} ELSE DOMAIN m \cup {a}
    IN  [b \in d |-> IF b = a THEN v ELSE m[b]]

\* The pixel grid pixels: [[bool; WIDTH]; HEIGHT] is held as the set of the
\* coordinates << y, x >> whose pixel is on.
Pixel(d, py, px) == << py, px >> \in d

PixelWrite(d, py, px, on) ==
    IF on THEN d \cup { << py, px >> } ELSE d \ { << py, px >> }

\* Display::new and Display::clear: every pixel off.
DisplayNew == {}

DisplayClear(d) ==
    d \ { << py, px >> : py \in 0 .. HEIGHT - 1, px \in 0 .. WIDTH - 1 }

\* Cpu::new
CpuNew ==
    [memory |-> [a \in { b \in 0 .. FONT_LEN - 1 : FONT[b + 1] # 0 } |->
                    FONT[a + 1]],
     display |-> DisplayNew,
     pc |-> PC_START,
     index |-> 0,
     registers |-> [r \in 0 .. NUM_REGISTERS - 1 |-> 0],
     stack |-> [i \in 0 .. STACK_SIZE - 1 |-> 0],
     stack_pointer |-> 0,
     delay_timer |-> 0]

\* self.pc += 2 on a u16.  fetch_opcode has already indexed memory[pc + 1],
\* so pc <= 4094 here and the sum never reaches the width.
PcAdvance(p) == (p + 2) % U16

\* ------------------------------------------------------------------ Cpu::load

\* load with the bound off by one: the copy stops before the last address.
load_stops_early(self, image) ==
    LET written == { a \in PC_START .. MEMORY_SIZE - 2 :
                        a - PC_START < Len(image) }
        nonzero == { a \in written : image[a - PC_START + 1] # 0 }
    IN  [self EXCEPT !.memory =
            [a \in (DOMAIN self.memory \ written) \cup nonzero |->
                IF a \in written THEN image[a - PC_START + 1]
                ELSE self.memory[a]]]

\* for (i, &byte) in rom.iter().enumerate(): memory[0x200 + i] = byte while
\* 0x200 + i < 4096, and the loop breaks at the first address past the end.
load(self, image) ==
    LET written == { a \in PC_START .. MEMORY_SIZE - 1 :
                        a - PC_START < Len(image) }
        nonzero == { a \in written : image[a - PC_START + 1] # 0 }
    IN  [self EXCEPT !.memory =
            [a \in (DOMAIN self.memory \ written) \cup nonzero |->
                IF a \in written THEN image[a - PC_START + 1]
                ELSE self.memory[a]]]

\* get_display(&self) -> &Display: the framebuffer itself, not a copy.
get_display(self) == self.display

\* ------------------------------------------------------------ opcode handlers

\* 00E0 that moves pc and leaves the pixels as they are.
op_00e0_no_clear(self) ==
    Ok([self EXCEPT !.pc = PcAdvance(self.pc)])

op_00e0(self) ==
    Ok([self EXCEPT !.display = DisplayClear(self.display),
                    !.pc = PcAdvance(self.pc)])

\* self.stack_pointer -= 1 on a usize that is 0: with overflow checks (the
\* debug profile) the subtraction panics; without them (the release profile)
\* it wraps to usize::MAX and the indexing self.stack[usize::MAX] panics.
\* The result is the set of the outcomes the two profiles can produce.
op_00ee(self) ==
    IF self.stack_pointer = 0
    THEN { Panic(self), Panic([self EXCEPT !.stack_pointer = USIZE_MAX]) }
    ELSE LET sp == self.stack_pointer - 1
         IN  IF sp >= STACK_SIZE
             THEN { Panic([self EXCEPT !.stack_pointer = sp]) }
             ELSE { Ok([self EXCEPT !.stack_pointer = sp,
                                    !.pc = self.stack[sp]]) }

op_1nnn(self, nnn) == Ok([self EXCEPT !.pc = nnn])

\* 2nnn that stores the address of the call itself instead of the address
\* after it.
op_2nnn_pushes_pc(self, nnn) ==
    IF self.stack_pointer >= STACK_SIZE
    THEN Panic(self)
    ELSE Ok([self EXCEPT !.stack[self.stack_pointer] = self.pc,
                         !.stack_pointer = self.stack_pointer + 1,
                         !.pc = nnn])

\* self.stack[self.stack_pointer] = ... is a checked index: it panics when
\* the pointer is 16, before anything is written.
op_2nnn(self, nnn) ==
    IF self.stack_pointer >= STACK_SIZE
    THEN Panic(self)
    ELSE Ok([self EXCEPT !.stack[self.stack_pointer] = (self.pc + 2) % U16,
                         !.stack_pointer = self.stack_pointer + 1,
                         !.pc = nnn])

op_3xnn(self, x, nn) ==
    LET p == IF self.registers[x] = nn THEN PcAdvance(self.pc) ELSE self.pc
    IN  Ok([self EXCEPT !.pc = PcAdvance(p)])

\* 4xnn with the comparison of 3xnn.
op_4xnn_skips_on_equal(self, x, nn) ==
    LET p == IF self.registers[x] = nn THEN PcAdvance(self.pc) ELSE self.pc
    IN  Ok([self EXCEPT !.pc = PcAdvance(p)])

op_4xnn(self, x, nn) ==
    LET p == IF self.registers[x] # nn THEN PcAdvance(self.pc) ELSE self.pc
    IN  Ok([self EXCEPT !.pc = PcAdvance(p)])

op_5xy0(self, x, y) ==
    LET p == IF self.registers[x] = self.registers[y]
             THEN PcAdvance(self.pc) ELSE self.pc
    IN  Ok([self EXCEPT !.pc = PcAdvance(p)])

op_6xnn(self, x, nn) ==
    Ok([self EXCEPT !.registers[x] = nn, !.pc = PcAdvance(self.pc)])

op_7xnn(self, x, nn) ==
    LET result == self.registers[x] + nn
    IN  Ok([self EXCEPT !.registers[x] = result % U8,
                        !.pc = PcAdvance(self.pc)])

op_8xy0(self, x, y) ==
    Ok([self EXCEPT !.registers[x] = self.registers[y],
                    !.pc = PcAdvance(self.pc)])

op_8xy1(self, x, y) ==
    Ok([self EXCEPT !.registers[x] = BitOr(@, self.registers[y]),
                    !.pc = PcAdvance(self.pc)])

op_8xy2(self, x, y) ==
    Ok([self EXCEPT !.registers[x] = BitAnd(@, self.registers[y]),
                    !.pc = PcAdvance(self.pc)])

op_8xy3(self, x, y) ==
    Ok([self EXCEPT !.registers[x] = BitXor(@, self.registers[y]),
                    !.pc = PcAdvance(self.pc)])

\* op_8xy4 with its two register writes in the order op_8xy5 has them.
op_8xy4_flag_first(self, x, y) ==
    LET r == overflowing_add(self.registers[x], self.registers[y])
        regs1 == [self.registers EXCEPT ![15] = r.overflowed]
        regs2 == [regs1 EXCEPT ![x] = r.value]
    IN  Ok([self EXCEPT !.registers = regs2, !.pc = PcAdvance(self.pc)])

\* registers[x] = value; registers[0xF] = overflowed: the flag is written last.
op_8xy4(self, x, y) ==
    LET r == overflowing_add(self.registers[x], self.registers[y])
        regs1 == [self.registers EXCEPT ![x] = r.value]
        regs2 == [regs1 EXCEPT ![15] = r.overflowed]
    IN  Ok([self EXCEPT !.registers = regs2, !.pc = PcAdvance(self.pc)])

\* registers[0xF] = overflowed; registers[x] = value: the result is written last.
op_8xy5(self, x, y) ==
    LET r == overflowing_add(self.registers[x], self.registers[y])
        regs1 == [self.registers EXCEPT ![15] = r.overflowed]
        regs2 == [regs1 EXCEPT ![x] = r.value]
    IN  Ok([self EXCEPT !.registers = regs2, !.pc = PcAdvance(self.pc)])

\* op_8xy6 with the flag taken from the low bit instead of the low nibble.
op_8xy6_low_bit(self, x, y) ==
    LET value == self.registers[x]
        shifted_bit == BitAnd(value, 1)
        regs1 == [self.registers EXCEPT ![x] = value \div 2]
        regs2 == [regs1 EXCEPT ![15] = shifted_bit]
    IN  Ok([self EXCEPT !.registers = regs2, !.pc = PcAdvance(self.pc)])

\* value & 0xF is kept as the flag, then value >>= 1; _y is not used.
op_8xy6(self, x, y) ==
    LET value == self.registers[x]
        shifted_bit == BitAnd(value, 15)
        regs1 == [self.registers EXCEPT ![x] = value \div 2]
        regs2 == [regs1 EXCEPT ![15] = shifted_bit]
    IN  Ok([self EXCEPT !.registers = regs2, !.pc = PcAdvance(self.pc)])

op_8xy7(self, x, y) ==
    LET r == overflowing_add(self.registers[y], self.registers[x])
        regs1 == [self.registers EXCEPT ![15] = r.overflowed]
        regs2 == [regs1 EXCEPT ![x] = r.value]
    IN  Ok([self EXCEPT !.registers = regs2, !.pc = PcAdvance(self.pc)])

op_8xye(self, x, y) ==
    LET value == self.registers[x]
        shifted_bit == value \div 128
        regs1 == [self.registers EXCEPT ![x] = (value * 2) % U8]
        regs2 == [regs1 EXCEPT ![15] = shifted_bit]
    IN  Ok([self EXCEPT !.registers = regs2, !.pc = PcAdvance(self.pc)])

op_9xy0(self, x, y) ==
    LET p == IF self.registers[x] # self.registers[y]
             THEN PcAdvance(self.pc) ELSE self.pc
    IN  Ok([self EXCEPT !.pc = PcAdvance(p)])

op_annn(self, nnn) ==
    Ok([self EXCEPT !.index = nnn, !.pc = PcAdvance(self.pc)])

\* registers[0] as u16 + nnn <= 255 + 4095: no u16 overflow.
op_bnnn(self, nnn) == Ok([self EXCEPT !.pc = self.registers[0] + nnn])

\* The inner loop of op_dxyn, for bit in 0..8, at row `byte` and screen row py.
\* registers[x] is read afresh for every bit; memory[index + byte] is a
\* checked index.
RECURSIVE dxyn_bits(_, _, _, _, _)
dxyn_bits(self, x, py, byte, bit) ==
    IF bit >= 8
    THEN Ok(self)
    ELSE LET px == (self.registers[x] + bit) % WIDTH
             addr == self.index + byte
         IN  IF addr >= MEMORY_SIZE
             THEN Panic(self)
             ELSE LET color == Bit(MemRead(self.memory, addr), 7 - bit)
                      lit == Pixel(self.display, py, px)
                      turned_off == IF color = 1 /\ lit THEN 1 ELSE 0
                      next ==
                        [self EXCEPT
                            !.registers[15] = BitOr(@, turned_off),
                            !.display = PixelWrite(@, py, px,
                                                   lit # (color # 0))]
                  IN  dxyn_bits(next, x, py, byte, bit + 1)

\* The outer loop of op_dxyn, for byte in 0..n; registers[y] is read afresh
\* for every row.
RECURSIVE dxyn_rows(_, _, _, _, _)
dxyn_rows(self, x, y, n, byte) ==
    IF byte >= n
    THEN Ok([self EXCEPT !.pc = PcAdvance(self.pc)])
    ELSE LET py == (self.registers[y] + byte) % HEIGHT
             row == dxyn_bits(self, x, py, byte, 0)
         IN  IF row.outcome # "ok"
             THEN row
             ELSE dxyn_rows(row.cpu, x, y, n, byte + 1)

\* Dxyn without the reset of VF before the loops.
op_dxyn_keeps_flag(self, x, y, n) ==
    dxyn_rows(self, x, y, n, 0)

op_dxyn(self, x, y, n) ==
    dxyn_rows([self EXCEPT !.registers[15] = 0], x, y, n, 0)

op_fx15(self, x) ==
    Ok([self EXCEPT !.delay_timer = self.registers[x],
                    !.pc = PcAdvance(self.pc)])

\* memory[idx] = Vx / 100; memory[idx + 1] = (Vx % 100) / 10;
\* memory[idx + 1] = Vx % 10.  Each write is a checked index.
op_fx33(self, x) ==
    LET idx == self.index
        vx == self.registers[x]
    IN  IF idx >= MEMORY_SIZE
        THEN Panic(self)
        ELSE LET m1 == MemWrite(self.memory, idx, vx \div 100)
             IN  IF idx + 1 >= MEMORY_SIZE
                 THEN Panic([self EXCEPT !.memory = m1])
                 ELSE LET m2 == MemWrite(m1, idx + 1, (vx % 100) \div 10)
                          m3 == MemWrite(m2, idx + 1, vx % 10)
                      IN  Ok([self EXCEPT !.memory = m3,
                                          !.pc = PcAdvance(self.pc)])

\* for offset in 0..=x: memory[index + offset] = registers[offset].
\* index <= 0xFFF (only op_annn sets it), so the u16 sum does not overflow.
RECURSIVE fx55_from(_, _, _)
fx55_from(self, x, offset) ==
    IF offset > x
    THEN Ok([self EXCEPT !.pc = PcAdvance(self.pc)])
    ELSE LET addr == self.index + offset
         IN  IF addr >= MEMORY_SIZE
             THEN Panic(self)
             ELSE fx55_from(
                    [self EXCEPT !.memory =
                        MemWrite(@, addr, self.registers[offset])],
                    x, offset + 1)

op_fx55(self, x) == fx55_from(self, x, 0)

\* for offset in 0..=x: registers[offset] = memory[index + offset].
RECURSIVE fx65_from(_, _, _)
fx65_from(self, x, offset) ==
    IF offset > x
    THEN Ok([self EXCEPT !.pc = PcAdvance(self.pc)])
    ELSE LET addr == self.index + offset
         IN  IF addr >= MEMORY_SIZE
             THEN Panic(self)
             ELSE fx65_from(
                    [self EXCEPT !.registers[offset] =
                        MemRead(self.memory, addr)],
                    x, offset + 1)

\* The loop written with an exclusive upper bound (0..x): Vx is not loaded.
op_fx65_exclusive(self, x) == fx65_from(self, x - 1, 0)

op_fx65(self, x) == fx65_from(self, x, 0)

\* ------------------------------------------------------- decode and dispatch

\* The four nibbles of an instruction word, as execute_opcode splits it.
Nibbles(w) == << w \div 4096, (w \div 256) % 16, (w \div 16) % 16, w % 16 >>

\* The match of execute_opcode in cpu.rs: the first arm whose pattern fits,
\* "unexpected" for the fall-through arm.
match_arm_cpu(w) ==
    LET n == Nibbles(w)
    IN  CASE n[1] = 0 /\ n[2] = 0 /\ n[3] = 14 /\ n[4] = 0 -> "op_00e0"
          [] n[1] = 0 /\ n[2] = 0 /\ n[3] = 14 /\ n[4] = 14 -> "op_00ee"
          [] n[1] = 1 -> "op_1nnn"
          [] n[1] = 2 -> "op_2nnn"
          [] n[1] = 3 -> "op_3xnn"
          [] n[1] = 4 -> "op_4xnn"
          [] n[1] = 5 -> "op_5xy0"
          [] n[1] = 6 -> "op_6xnn"
          [] n[1] = 7 -> "op_7xnn"
          [] n[1] = 8 /\ n[4] = 0 -> "op_8xy0"
          [] n[1] = 8 /\ n[4] = 1 -> "op_8xy1"
          [] n[1] = 8 /\ n[4] = 2 -> "op_8xy2"
          [] n[1] = 8 /\ n[4] = 3 -> "op_8xy3"
          [] n[1] = 8 /\ n[4] = 4 -> "op_8xy4"
          [] n[1] = 8 /\ n[4] = 5 -> "op_8xy5"
          [] n[1] = 8 /\ n[4] = 6 -> "op_8xy6"
          [] n[1] = 8 /\ n[4] = 7 -> "op_8xy7"
          [] n[1] = 8 /\ n[4] = 14 -> "op_8xye"
          [] n[1] = 9 /\ n[4] = 0 -> "op_9xy0"
          [] n[1] = 10 -> "op_annn"
          [] n[1] = 11 -> "op_bnnn"
          [] n[1] = 13 -> "op_dxyn"
          [] n[1] = 15 /\ n[3] = 1 /\ n[4] = 5 -> "op_fx15"
          [] n[1] = 15 /\ n[3] = 3 /\ n[4] = 3 -> "op_fx33"
          [] n[1] = 15 /\ n[3] = 5 /\ n[4] = 5 -> "op_fx55"
          [] n[1] = 15 /\ n[3] = 6 /\ n[4] = 5 -> "op_fx65"
          [] OTHER -> "unexpected"

\* The match of execute_opcode in main.rs: the same table without a Bnnn arm.
match_arm_main(w) ==
    LET n == Nibbles(w)
    IN  CASE n[1] = 0 /\ n[2] = 0 /\ n[3] = 14 /\ n[4] = 0 -> "op_00e0"
          [] n[1] = 0 /\ n[2] = 0 /\ n[3] = 14 /\ n[4] = 14 -> "op_00ee"
          [] n[1] = 1 -> "op_1nnn"
          [] n[1] = 2 -> "op_2nnn"
          [] n[1] = 3 -> "op_3xnn"
          [] n[1] = 4 -> "op_4xnn"
          [] n[1] = 5 -> "op_5xy0"
          [] n[1] = 6 -> "op_6xnn"
          [] n[1] = 7 -> "op_7xnn"
          [] n[1] = 8 /\ n[4] = 0 -> "op_8xy0"
          [] n[1] = 8 /\ n[4] = 1 -> "op_8xy1"
          [] n[1] = 8 /\ n[4] = 2 -> "op_8xy2"
          [] n[1] = 8 /\ n[4] = 3 -> "op_8xy3"
          [] n[1] = 8 /\ n[4] = 4 -> "op_8xy4"
          [] n[1] = 8 /\ n[4] = 5 -> "op_8xy5"
          [] n[1] = 8 /\ n[4] = 6 -> "op_8xy6"
          [] n[1] = 8 /\ n[4] = 7 -> "op_8xy7"
          [] n[1] = 8 /\ n[4] = 14 -> "op_8xye"
          [] n[1] = 9 /\ n[4] = 0 -> "op_9xy0"
          [] n[1] = 10 -> "op_annn"
          [] n[1] = 13 -> "op_dxyn"
          [] n[1] = 15 /\ n[3] = 1 /\ n[4] = 5 -> "op_fx15"
          [] n[1] = 15 /\ n[3] = 3 /\ n[4] = 3 -> "op_fx33"
          [] n[1] = 15 /\ n[3] = 5 /\ n[4] = 5 -> "op_fx55"
          [] n[1] = 15 /\ n[3] = 6 /\ n[4] = 5 -> "op_fx65"
          [] OTHER -> "unexpected"

match_arm(w, rev) ==
    IF rev = "cpu.rs" THEN match_arm_cpu(w) ELSE match_arm_main(w)

\* The fall-through arm: cpu.rs panics with the opcode in the message;
\* main.rs prints the opcode and then spins in `loop {}`.
unexpected_opcode(self, rev) ==
    IF rev = "cpu.rs" THEN Panic(self) ELSE Hang(self)

\* execute_opcode: the operands and the body of the arm taken.  The result
\* is the set of outcomes; only op_00ee has more than one.
execute_opcode(self, w, rev) ==
    LET nnn == w % 4096
        nn == w % 256
        x == Nibbles(w)[2]
        y == Nibbles(w)[3]
        n == Nibbles(w)[4]
        arm == match_arm(w, rev)
    IN  CASE arm = "op_00e0" -> { op_00e0(self) }
          [] arm = "op_00ee" -> op_00ee(self)
          [] arm = "op_1nnn" -> { op_1nnn(self, nnn) }
          [] arm = "op_2nnn" -> { op_2nnn(self, nnn) }
          [] arm = "op_3xnn" -> { op_3xnn(self, x, nn) }
          [] arm = "op_4xnn" -> { op_4xnn(self, x, nn) }
          [] arm = "op_5xy0" -> { op_5xy0(self, x, y) }
          [] arm = "op_6xnn" -> { op_6xnn(self, x, nn) }
          [] arm = "op_7xnn" -> { op_7xnn(self, x, nn) }
          [] arm = "op_8xy0" -> { op_8xy0(self, x, y) }
          [] arm = "op_8xy1" -> { op_8xy1(self, x, y) }
          [] arm = "op_8xy2" -> { op_8xy2(self, x, y) }
          [] arm = "op_8xy3" -> { op_8xy3(self, x, y) }
          [] arm = "op_8xy4" -> { op_8xy4(self, x, y) }
          [] arm = "op_8xy5" -> { op_8xy5(self, x, y) }
          [] arm = "op_8xy6" -> { op_8xy6(self, x, y) }
          [] arm = "op_8xy7" -> { op_8xy7(self, x, y) }
          [] arm = "op_8xye" -> { op_8xye(self, x, y) }
          [] arm = "op_9xy0" -> { op_9xy0(self, x, y) }
          [] arm = "op_annn" -> { op_annn(self, nnn) }
          [] arm = "op_bnnn" -> { op_bnnn(self, nnn) }
          [] arm = "op_dxyn" -> { op_dxyn(self, x, y, n) }
          [] arm = "op_fx15" -> { op_fx15(self, x) }
          [] arm = "op_fx33" -> { op_fx33(self, x) }
          [] arm = "op_fx55" -> { op_fx55(self, x) }
          [] arm = "op_fx65" -> { op_fx65(self, x) }
          [] OTHER -> { unexpected_opcode(self, rev) }

\* fetch_opcode: the big-endian word at pc; both reads are checked indexes.
fetch_in_bounds(self) == self.pc + 1 < MEMORY_SIZE

fetch_opcode(self) ==
    MemRead(self.memory, self.pc) * 256 + MemRead(self.memory, self.pc + 1)

\* Cpu::tick: timer, fetch, execute.  The result is the set of outcomes, each
\* with the word that was fetched and the arm taken.
\* tick with the countdown written as an unguarded wrapping decrement.
tick_wrapping(self, rev) ==
    LET timed == [self EXCEPT !.delay_timer = (self.delay_timer - 1) % U8]
    IN  IF ~fetch_in_bounds(timed)
        THEN { [cpu |-> timed, outcome |-> "panic",
                opcode |-> NoOpcode, handler |-> "none"] }
        ELSE LET w == fetch_opcode(timed)
             IN  { [cpu |-> r.cpu, outcome |-> r.outcome,
                    opcode |-> w, handler |-> match_arm(w, rev)] :
                   r \in execute_opcode(timed, w, rev) }

\* tick without the countdown of the delay timer.
tick_no_countdown(self, rev) ==
    IF ~fetch_in_bounds(self)
    THEN { [cpu |-> self, outcome |-> "panic",
            opcode |-> NoOpcode, handler |-> "none"] }
    ELSE LET w == fetch_opcode(self)
         IN  { [cpu |-> r.cpu, outcome |-> r.outcome,
                opcode |-> w, handler |-> match_arm(w, rev)] :
               r \in execute_opcode(self, w, rev) }

tick(self, rev) ==
    LET timed == IF self.delay_timer > 0
                 THEN [self EXCEPT !.delay_timer = self.delay_timer - 1]
                 ELSE self
    IN  IF ~fetch_in_bounds(timed)
        THEN { [cpu |-> timed, outcome |-> "panic",
                opcode |-> NoOpcode, handler |-> "none"] }
        ELSE LET w == fetch_opcode(timed)
             IN  { [cpu |-> r.cpu, outcome |-> r.outcome,
                    opcode |-> w, handler |-> match_arm(w, rev)] :
                   r \in execute_opcode(timed, w, rev) }

\* ------------------------------------------------------------ program images

\* Bound on the number of tick() calls explored from one program image.
MaxSteps == 34

Word(a, b, c, d) == a * 4096 + b * 256 + c * 16 + d

\* The image of a sequence of instruction words, big-endian.
Image(words) ==
    [i \in 1 .. 2 * Len(words) |->
        IF i % 2 = 1 THEN words[(i + 1) \div 2] \div 256
                     ELSE words[i \div 2] % 256]

\* An image of `len` nonzero bytes that is not a program.
Filler(len) == [i \in 1 .. len |-> 1 + ((i - 1) % 255)]

ByteSamples == {0, 1, 31, 128, 255}
RegSamples == {0, 1, 15}

\* One-word programs: every first nibble and last nibble, and the second and
\* third nibbles the decode table distinguishes.
DecodeWords ==
    { Word(a, b, c, d) : a \in 0 .. 15, b \in {0, 15},
                         c \in {0, 1, 3, 5, 6, 14}, d \in 0 .. 15 }

DecodePrograms == { << w >> : w \in DecodeWords }

\* Vx = a; Vy = b; then one 8xyK instruction.
AluPrograms ==
    { << Word(6, x, a \div 16, a % 16), Word(6, y, b \div 16, b % 16),
         Word(8, x, y, k) >> :
        x \in RegSamples, y \in RegSamples,
        a \in ByteSamples, b \in ByteSamples, k \in {4, 5, 6, 7, 14} }

\* Vx = a; I = nnn; Fx33.
BcdPrograms ==
    { << Word(6, x, a \div 16, a % 16), nnn + 40960, Word(15, x, 3, 3) >> :
        x \in {0, 15}, a \in {0, 7, 99, 100, 123, 255},
        nnn \in {768, 4093, 4094, 4095} }

\* Vx = a; Vy = b; I = a glyph of the font; draw n rows, three times.
DrawPrograms ==
    { << Word(6, xy[1], a \div 16, a % 16), Word(6, xy[2], b \div 16, b % 16),
         glyph + 40960, Word(13, xy[1], xy[2], n), Word(13, xy[1], xy[2], n),
         Word(13, xy[1], xy[2], n) >> :
        xy \in { <<0, 1>>, <<15, 1>>, <<1, 15>> },
        a \in {0, 60, 63, 200}, b \in {0, 30, 31},
        glyph \in {0, 5}, n \in {0, 1, 5} }

\* 2200 at 0x200 calls itself; 2204 calls a routine that returns at once.
CallPrograms ==
    { << Word(2, 2, 0, 0) >>,
      << Word(2, 2, 0, 4), 0, Word(0, 0, 14, 14) >> }

\* Call the routine at 0x204, which sets V1 = a, draws a glyph at (V1, V1)
\* and clears the screen.
ClearPrograms ==
    { << Word(2, 2, 0, 4), 0, Word(6, 1, a \div 16, a % 16), glyph + 40960,
         Word(13, 1, 1, 5), Word(0, 0, 14, 0) >> :
        a \in {0, 30, 63}, glyph \in {0, 5} }

\* Inside a called routine, with I = 5 and one sprite row on the screen:
\* Vx = a; Vy = b; then one conditional skip.
SkipPrograms ==
    { << Word(2, 2, 0, 4), 0, 5 + 40960, Word(13, 0, 0, 1),
         Word(6, xy[1], a \div 16, a % 16), Word(6, xy[2], b \div 16, b % 16),
         IF op[1] \in {3, 4}
         THEN Word(op[1], xy[1], op[2] \div 16, op[2] % 16)
         ELSE Word(op[1], xy[1], xy[2], 0) >> :
        xy \in { <<0, 1>>, <<15, 1>>, <<1, 1>> },
        a \in {0, 7, 255}, b \in {0, 7, 255},
        op \in { <<3, 7>>, <<3, 255>>, <<4, 7>>, <<4, 255>>,
                 <<5, 0>>, <<9, 0>> } }

\* V0 = a; jump to V0 + nnn.
JumpPrograms ==
    { << Word(6, 0, a \div 16, a % 16), 45056 + nnn >> :
        a \in {0, 1, 255}, nnn \in {0, 768, 4095} }

\* Programs that reach the top of memory: a jump to 0xFFE or 0xFFF, and a
\* draw of one or two rows with I = 0xFFF.
EdgePrograms ==
    { << Word(1, 15, 15, 14) >>,
      << Word(1, 15, 15, 15) >>,
      << 4095 + 40960, Word(13, 0, 0, 1) >>,
      << 4095 + 40960, Word(13, 0, 0, 2) >> }

\* Set V0, V1 and VF, point I at nnn, store V0..Vx, overwrite the three
\* registers, load V0..Vx back.
StorePrograms ==
    { << Word(6, 0, ab[1] \div 16, ab[1] % 16),
         Word(6, 1, ab[2] \div 16, ab[2] % 16),
         Word(6, 15, 10, 10),
         nnn + 40960,
         Word(15, x, 5, 5),
         Word(6, 0, 5, 5),
         Word(6, 1, 0, 0),
         Word(6, 15, 15, 15),
         Word(15, x, 6, 5) >> :
        x \in {0, 1, 15}, ab \in { <<7, 9>>, <<255, 0>> },
        nnn \in {0, 768, 4080, 4094, 4095} }

\* A chain of calls nested depth deep: the routine at 0x200 + 4j is a call of
\* the routine at 0x200 + 4(j + 1) followed by 00EE; the innermost routine is
\* a lone 00EE.
Nest(depth) ==
    [i \in 1 .. 2 * depth + 1 |->
        IF i % 2 = 1 /\ i < 2 * depth + 1
        THEN 8192 + PC_START + 4 * ((i + 1) \div 2)
        ELSE Word(0, 0, 14, 14)]

NestDepths == {1, 2, 16, 17}

NestPrograms == { Nest(depth) : depth \in NestDepths }

\* Vx = a; delay timer = Vx; then a jump to itself at 0x204.
TimerPrograms ==
    { << Word(6, x, a \div 16, a % 16), Word(15, x, 1, 5), Word(1, 2, 0, 4) >> :
        x \in {0, 15}, a \in {0, 1, 3, 255} }

Programs ==
    DecodePrograms \cup AluPrograms \cup BcdPrograms \cup DrawPrograms
        \cup CallPrograms \cup StorePrograms \cup TimerPrograms
        \cup NestPrograms \cup ClearPrograms \cup SkipPrograms
        \cup JumpPrograms \cup EdgePrograms

\* Image lengths around the 3584 bytes that fit above 0x200.
FillerLengths == {0, 1, 3583, 3584, 3585, 5000}

Roms == { Image(p) : p \in Programs } \cup { Filler(n) : n \in FillerLengths }

Revisions == {"cpu.rs", "main.rs"}

\* ------------------------------------------------------------------- actions

\* main: Cpu::new(), with the image read from the file named on the command
\* line.
Init ==
    /\ rom \in Roms
    /\ revision \in Revisions
    /\ memory = CpuNew.memory
    /\ display = CpuNew.display
    /\ pc = CpuNew.pc
    /\ index = CpuNew.index
    /\ registers = CpuNew.registers
    /\ stack = CpuNew.stack
    /\ stack_pointer = CpuNew.stack_pointer
    /\ delay_timer = CpuNew.delay_timer
    /\ phase = "new"
    /\ outcome = "ok"
    /\ opcode = NoOpcode
    /\ handler = "none"
    /\ prev = CpuNew
    /\ steps = 0
    /\ open_calls = << >>
    /\ quiet = 0

\* main: cpu.load(&rom)
Load ==
    /\ phase = "new"
    /\ memory' = load(Self, rom).memory
    /\ phase' = "loaded"
    /\ UNCHANGED << display, pc, index, registers, stack, stack_pointer,
                    delay_timer, rom, revision, outcome, opcode, handler,
                    prev, steps, open_calls, quiet >>

\* The open calls after a tick that started at address a with the open
\* calls `open` and ended as r: a 2nnn that completed opens a call that is
\* to resume at a + 2, a 00EE that completed closes the newest open call.
Nesting(open, a, r) ==
    IF r.outcome = "ok" /\ r.handler = "op_2nnn" THEN Append(open, a + 2)
    ELSE IF r.outcome = "ok" /\ r.handler = "op_00ee" /\ Len(open) > 0
         THEN SubSeq(open, 1, Len(open) - 1)
    ELSE open

\* The run of quiet ticks after a tick that ended as r: a tick that returned
\* without running Fx15 lengthens it, any other tick ends it.
Quiet(run, r) ==
    IF r.outcome = "ok" /\ r.handler # "op_fx15"
    THEN (IF run < U8 - 1 THEN run + 1 ELSE run)
    ELSE 0

\* main: one cpu.tick() of the event loop.  A tick that panicked or hung is
\* the last one.
Step ==
    /\ phase \in {"loaded", "ticking"}
    /\ outcome = "ok"
    /\ steps < MaxSteps
    /\ \E r \in tick(Self, revision) :
         /\ memory' = r.cpu.memory
         /\ display' = r.cpu.display
         /\ pc' = r.cpu.pc
         /\ index' = r.cpu.index
         /\ registers' = r.cpu.registers
         /\ stack' = r.cpu.stack
         /\ stack_pointer' = r.cpu.stack_pointer
         /\ delay_timer' = r.cpu.delay_timer
         /\ outcome' = r.outcome
         /\ opcode' = r.opcode
         /\ handler' = r.handler
         /\ open_calls' = Nesting(open_calls, pc, r)
         /\ quiet' = Quiet(quiet, r)
    /\ prev' = Self
    /\ phase' = "ticking"
    /\ steps' = steps + 1
    /\ UNCHANGED << rom, revision >>

Next == Load \/ Step

Spec == Init /\ [][Next]_vars

\* ------------------------------------------------- the driver that never stops

\* Vx = a; delay timer = Vx; then a jump back to the Fx15 at 0x202, which
\* sets the timer again on every second tick.
RearmPrograms ==
    { << Word(6, x, a \div 16, a % 16), Word(15, x, 1, 5), Word(1, 2, 0, 2) >> :
        x \in {0, 15}, a \in {0, 3, 255} }

\* Images whose run is followed without a bound on the number of ticks:
\* programs that loop with the timer running, programs that set the timer
\* again and again, and programs that end in a panic or a hang.
LiveRoms ==
    { Image(p) : p \in TimerPrograms \cup RearmPrograms \cup CallPrograms
                        \cup JumpPrograms }

LiveInit ==
    /\ Init
    /\ rom \in LiveRoms

\* main: one cpu.tick() of an event loop that goes on for as long as tick()
\* returns; the count of ticks stops at MaxSteps, the ticks do not.
LiveStep ==
    /\ phase \in {"loaded", "ticking"}
    /\ outcome = "ok"
    /\ \E r \in tick(Self, revision) :
         /\ memory' = r.cpu.memory
         /\ display' = r.cpu.display
         /\ pc' = r.cpu.pc
         /\ index' = r.cpu.index
         /\ registers' = r.cpu.registers
         /\ stack' = r.cpu.stack
         /\ stack_pointer' = r.cpu.stack_pointer
         /\ delay_timer' = r.cpu.delay_timer
         /\ outcome' = r.outcome
         /\ opcode' = r.opcode
         /\ handler' = r.handler
         /\ open_calls' = Nesting(open_calls, pc, r)
         /\ quiet' = Quiet(quiet, r)
    /\ prev' = Self
    /\ phase' = "ticking"
    /\ steps' = (IF steps < MaxSteps THEN steps + 1 ELSE steps)
    /\ UNCHANGED << rom, revision >>

LiveNext == Load \/ LiveStep

\* event_loop.run polls (the default ControlFlow) and calls cpu.tick() once
\* per turn, so load() and every tick() that can run does run.
LiveSpec ==
    LiveInit /\ [][LiveNext]_vars /\ WF_vars(Load) /\ WF_vars(LiveStep)

\* ------------------------------------------------------------------- claims

\* tick() returns `()`: a call ends "ok", or it panics, or (main.rs) it never
\* returns.  No call of the source ends with a failure value handed back to
\* the caller; the claims about error reporting name that outcome "error".
Outcomes == {"ok", "panic", "hang"}

TypeOK ==
    /\ outcome \in Outcomes
    /\ phase \in {"new", "loaded", "ticking"}
    /\ steps \in 0 .. MaxSteps
    /\ DOMAIN memory \subseteq 0 .. MEMORY_SIZE - 1
    /\ \A a \in DOMAIN memory : memory[a] \in 1 .. U8 - 1
    /\ display \subseteq (0 .. HEIGHT - 1) \X (0 .. WIDTH - 1)
    /\ \A r \in 0 .. NUM_REGISTERS - 1 : registers[r] \in 0 .. U8 - 1
    /\ delay_timer \in 0 .. U8 - 1

\* The last tick() fetched a word and took the arm `name` of the match.
Took(name) == phase = "ticking" /\ handler = name

\* The register operands of the word the last tick() fetched.
OpX == (opcode \div 256) % 16
OpY == (opcode \div 16) % 16
OpN == opcode % 16

\* The Cpu as the handler of the last tick() found it: the state before the
\* tick with the timer already counted down.
Before ==
    [prev EXCEPT !.delay_timer = IF @ > 0 THEN @ - 1 ELSE 0]

\* C1 (as stated): a tick that fetches 00EE with an empty call stack hands
\* the stack-underflow error back to its caller and leaves every field of
\* the interpreter as it was before the tick.
C1_UnderflowReportedStateKept ==
    (phase = "ticking" /\ opcode = 238 /\ prev.stack_pointer = 0)
        => (outcome = "error" /\ Self = prev)

\* C2 (as stated): a tick that fetches 2nnn with 16 return addresses on the
\* stack hands a call-stack-overflow failure back to its caller; the stack
\* pointer stays 16, the stored addresses are kept and pc does not move.
C2_OverflowReported ==
    (Took("op_2nnn") /\ prev.stack_pointer = STACK_SIZE)
        => /\ outcome = "error"
           /\ stack_pointer = STACK_SIZE
           /\ stack = prev.stack
           /\ pc = prev.pc

\* C3 (as stated): a tick that fetches a word matching no decode rule
\* returns to its caller with a failure result (neither a crash nor a call
\* that never returns) and applies no opcode effect.
C3_UnimplementedReported ==
    Took("unexpected")
        => /\ outcome = "error"
           /\ Self = Before

\* The decode table as claim C4 lists it.
InTable(w) ==
    LET a == w \div 4096
        c == (w \div 16) % 16
        d == w % 16
    IN  \/ w \in {224, 238}
        \/ a \in {1, 2, 3, 4, 6, 7, 10, 11, 13}
        \/ a = 5 /\ d = 0
        \/ a = 8 /\ d \in (0 .. 7) \cup {14}
        \/ a = 9 /\ d = 0
        \/ a = 15 /\ << c, d >> \in { <<1, 5>>, <<3, 3>>, <<5, 5>>, <<6, 5>> }

\* C4 (as stated): a fetched word is dispatched to an opcode handler exactly
\* when it matches a pattern of the table; every other word takes the
\* unimplemented-opcode path.
C4_DispatchIffInTable ==
    (phase = "ticking" /\ opcode # NoOpcode)
        => (handler # "unexpected" <=> InTable(opcode))

\* C5: right after load(rom) on a fresh interpreter, memory[0x200 + i] is
\* rom[i] for every i that fits below 4096, the bytes past the end are
\* dropped without an error, and every other cell and every other field
\* has its initial value.  (A cell outside both maps is zero in both arrays.)
C5_LoadCopiesAndClips ==
    phase = "loaded"
        => /\ \A i \in 0 .. Len(rom) - 1 :
                PC_START + i < MEMORY_SIZE
                    => MemRead(memory, PC_START + i) = rom[i + 1]
           /\ DOMAIN memory \subseteq 0 .. MEMORY_SIZE - 1
           /\ \A a \in DOMAIN memory \cup DOMAIN CpuNew.memory :
                (a < PC_START \/ a >= PC_START + Len(rom))
                    => MemRead(memory, a) = MemRead(CpuNew.memory, a)
           /\ \A a \in 0 .. FONT_LEN - 1 : MemRead(memory, a) = FONT[a + 1]
           /\ outcome = "ok"
           /\ pc = PC_START
           /\ index = 0
           /\ registers = CpuNew.registers
           /\ stack = CpuNew.stack
           /\ stack_pointer = 0
           /\ delay_timer = 0
           /\ display = CpuNew.display

\* C5 witness: a 5000-byte image has been loaded and its byte 3583 sits at
\* address 4095.
C5_Witness ==
    /\ phase = "loaded"
    /\ Len(rom) = 5000
    /\ MemRead(memory, MEMORY_SIZE - 1) = rom[MEMORY_SIZE - PC_START]
    /\ rom[MEMORY_SIZE - PC_START] # 0

\* The sprite of n rows at I, drawn at (vx, vy) with wraparound: the set of
\* the pixels its 1-bits land on.
SpritePixels(m, i, n, vx, vy) ==
    { << (vy + rc[1]) % HEIGHT, (vx + rc[2]) % WIDTH >> :
        rc \in { q \in (0 .. n - 1) \X (0 .. 7) :
                    (MemRead(m, i + q[1]) \div (2 ^ (7 - q[2]))) % 2 = 1 } }

\* C6 (as stated): after each flag-producing opcode VF holds the documented
\* flag, computed from the operand values held before the instruction, for
\* every x and y including F; Dxyn draws at the (Vx, Vy) held before it.
C6_FlagIsLastWrite ==
    LET vx == Before.registers[OpX]
        vy == Before.registers[OpY]
        sprite == SpritePixels(Before.memory, Before.index, OpN, vx, vy)
    IN  /\ (Took("op_8xy4") \/ Took("op_8xy5") \/ Took("op_8xy7"))
              => registers[15] = (IF vx + vy > 255 THEN 1 ELSE 0)
        /\ Took("op_8xy6") => registers[15] = vx % 16
        /\ Took("op_8xye") => registers[15] = vx \div 128
        /\ (Took("op_dxyn") /\ outcome = "ok")
              => /\ registers[15] =
                        (IF sprite \cap Before.display # {} THEN 1 ELSE 0)
                 /\ display = (Before.display \ sprite)
                                  \cup (sprite \ Before.display)

\* C7 (as stated): 8xy5 leaves exactly the state 8xy4 leaves from the same
\* starting state, with VF the carry of Vx + Vy and Vx the wrapped sum.
C7_Mirrors8xy4 ==
    Took("op_8xy5")
        => LET vx == Before.registers[OpX]
               vy == Before.registers[OpY]
           IN  /\ Self = op_8xy4(Before, OpX, OpY).cpu
               /\ registers[15] = (IF vx + vy > 255 THEN 1 ELSE 0)
               /\ pc = prev.pc + 2

\* C8: 8xy4 sets VF to 1 exactly when Vx + Vy > 255 and to 0 otherwise, sets
\* Vx to (Vx + Vy) mod 256 when x is not F, and advances pc by 2.
C8_AddCarry ==
    Took("op_8xy4")
        => LET vx == prev.registers[OpX]
               vy == prev.registers[OpY]
           IN  /\ outcome = "ok"
               /\ registers[15] = (IF vx + vy > 255 THEN 1 ELSE 0)
               /\ OpX # 15 => registers[OpX] = (vx + vy) % 256
               /\ \A r \in 0 .. 14 : r # OpX => registers[r] = prev.registers[r]
               /\ pc = prev.pc + 2

\* C8 witness: an 8xy4 with x not F whose sum passed 255 has set the carry
\* and left the wrapped sum in Vx.
C8_Witness ==
    /\ Took("op_8xy4")
    /\ OpX # 15
    /\ prev.registers[OpX] + prev.registers[OpY] > 255
    /\ registers[15] = 1
    /\ registers[OpX] = prev.registers[OpX] + prev.registers[OpY] - 256

\* C9: 8xy6 sets VF to the low nibble of the old Vx, sets Vx to the old Vx
\* shifted right by one when x is not F, leaves every other register alone
\* whatever Vy holds, and advances pc by 2.
C9_ShiftRightNibble ==
    Took("op_8xy6")
        => LET vx == prev.registers[OpX]
           IN  /\ outcome = "ok"
               /\ registers[15] = vx % 16
               /\ OpX # 15 => registers[OpX] = vx \div 2
               /\ \A r \in 0 .. 14 : r # OpX => registers[r] = prev.registers[r]
               /\ pc = prev.pc + 2

\* C9 witness: 8xy6 on Vx = 0x1F has left VF = 0x0F and Vx = 0x0F, with a
\* Vy that differs from Vx.
C9_Witness ==
    /\ Took("op_8xy6")
    /\ OpX # 15
    /\ OpY # OpX
    /\ prev.registers[OpX] = 31
    /\ prev.registers[OpY] # 31
    /\ registers[15] = 15
    /\ registers[OpX] = 15

\* C10 (as stated): after Fx33 with I + 2 <= 4095, memory[I], memory[I + 1]
\* and memory[I + 2] hold the hundreds, tens and ones digit of Vx, every
\* other cell, the registers and I are unchanged and pc has advanced by 2.
C10_BcdDigits ==
    (Took("op_fx33") /\ prev.index + 2 <= MEMORY_SIZE - 1)
        => LET vx == prev.registers[OpX]
               i == prev.index
           IN  /\ MemRead(memory, i) = vx \div 100
               /\ MemRead(memory, i + 1) = (vx \div 10) % 10
               /\ MemRead(memory, i + 2) = vx % 10
               /\ \A a \in DOMAIN memory \cup DOMAIN prev.memory :
                    a \notin {i, i + 1, i + 2}
                        => MemRead(memory, a) = MemRead(prev.memory, a)
               /\ registers = prev.registers
               /\ index = prev.index
               /\ pc = prev.pc + 2

\* The register file after the three 6xnn overwrites a program may run
\* between a store and the load that follows it.
Overwritten(regs, v) ==
    [r \in 0 .. NUM_REGISTERS - 1 |-> IF r \in {0, 1, 15} THEN v[r] ELSE regs[r]]

\* C11: Fx55 with I + x <= 4095 writes memory[I + k] = Vk for k in 0..x and no
\* other cell; Fx65 with I + x <= 4095 loads V0..Vx from memory[I..I + x];
\* neither changes I or a register above Vx; and an Fx65 run on the state an
\* Fx55 left, with the same I and x, gives V0..Vx the values the Fx55 stored
\* whatever V0, V1 and VF were overwritten with in between.
C11_StoreThenLoad ==
    /\ (Took("op_fx55") /\ prev.index + OpX <= MEMORY_SIZE - 1)
            => /\ outcome = "ok"
               /\ \A k \in 0 .. OpX :
                    MemRead(memory, prev.index + k) = prev.registers[k]
               /\ \A a \in DOMAIN memory \cup DOMAIN prev.memory :
                    a \notin prev.index .. prev.index + OpX
                        => MemRead(memory, a) = MemRead(prev.memory, a)
               /\ registers = prev.registers
               /\ index = prev.index
               /\ pc = prev.pc + 2
               /\ \A lo \in ByteSamples, hi \in ByteSamples :
                    LET junk == Overwritten(registers,
                                    [r \in {0, 1, 15} |-> IF r = 0 THEN lo ELSE hi])
                        back == op_fx65([Self EXCEPT !.registers = junk], OpX)
                    IN  /\ back.outcome = "ok"
                        /\ \A k \in 0 .. OpX :
                             back.cpu.registers[k] = prev.registers[k]
                        /\ \A r \in OpX + 1 .. NUM_REGISTERS - 1 :
                             back.cpu.registers[r] = junk[r]
    /\ (Took("op_fx65") /\ prev.index + OpX <= MEMORY_SIZE - 1)
            => /\ outcome = "ok"
               /\ \A k \in 0 .. OpX :
                    registers[k] = MemRead(prev.memory, prev.index + k)
               /\ \A r \in OpX + 1 .. NUM_REGISTERS - 1 :
                    registers[r] = prev.registers[r]
               /\ memory = prev.memory
               /\ index = prev.index
               /\ pc = prev.pc + 2

\* C11 witness: an Fx65 with x >= 1 has put back into V0 and V1 values that
\* differ from the ones the registers were overwritten with, read from the
\* cells at I and I + 1.
C11_Witness ==
    /\ Took("op_fx65")
    /\ outcome = "ok"
    /\ OpX >= 1
    /\ prev.registers[0] = 85
    /\ registers[0] = 7
    /\ registers[1] = 9
    /\ registers[0] = MemRead(memory, index)
    /\ registers[1] = MemRead(memory, index + 1)

\* The pixels inside the 64x32 grid.
Grid == (0 .. HEIGHT - 1) \X (0 .. WIDTH - 1)

\* The framebuffer d with every pixel of the set s toggled.
Toggled(d, s) == (d \ s) \cup (s \ d)

\* C12 (as stated): Dxyn XORs bit (7 - c) of memory[I + r], for r in 0..n-1
\* and c in 0..7, into pixel ((Vx + c) mod 64, (Vy + r) mod 32), Vx and Vy
\* being the registers' values when the instruction is fetched; no pixel
\* outside the grid is touched and every other pixel is unchanged.
C12_DrawWrapsXor ==
    (Took("op_dxyn") /\ outcome = "ok")
        => /\ display \subseteq Grid
           /\ display =
                Toggled(prev.display,
                        SpritePixels(prev.memory, prev.index, OpN,
                                     prev.registers[OpX], prev.registers[OpY]))

\* C13 (as stated): when a Dxyn has drawn a non-empty sprite and the next
\* tick runs the same Dxyn with Vx, Vy and I unchanged, the framebuffer after
\* the second draw is the one before the first draw and VF is 1.
C13_DrawTwiceRestores ==
    (/\ Took("op_dxyn")
     /\ outcome = "ok"
     /\ SpritePixels(memory, index, OpN, registers[OpX], registers[OpY]) # {}
     /\ registers[OpX] = prev.registers[OpX]
     /\ registers[OpY] = prev.registers[OpY]
     /\ index = prev.index)
        => \A second \in tick(Self, revision) :
             second.opcode = opcode
                => /\ second.outcome = "ok"
                   /\ second.cpu.display = prev.display
                   /\ second.cpu.registers[15] = 1

\* C14: the delay timer is always in 0..255; a tick whose instruction is not
\* Fx15 leaves it at max(d - 1, 0), d being its value before the tick (so a
\* nonzero timer drops by exactly 1 and a zero timer stays zero, never
\* wrapping to 255); a tick that runs Fx15 leaves it equal to Vx.
C14_TimerCountsDown ==
    /\ delay_timer \in 0 .. U8 - 1
    /\ (phase = "ticking" /\ handler # "op_fx15")
            => delay_timer =
                 (IF prev.delay_timer > 0 THEN prev.delay_timer - 1 ELSE 0)
    /\ Took("op_fx15")
            => /\ outcome = "ok"
               /\ delay_timer = prev.registers[OpX]
               /\ registers = prev.registers

\* C14 witness: the program 6003 F015 1204 after six ticks: the timer was set
\* to 3 by the second tick, reached 0 at the fifth and stayed 0 at the sixth.
C14_Witness ==
    /\ rom = Image(<< Word(6, 0, 0, 3), Word(15, 0, 1, 5), Word(1, 2, 0, 4) >>)
    /\ steps = 6
    /\ Took("op_1nnn")
    /\ prev.delay_timer = 0
    /\ delay_timer = 0

\* C15 (as stated): in every state reached by load() and ticks the stack
\* pointer is in 0..16 and equals the number of 2nnn calls not yet matched by
\* a 00EE return.
C15_PointerCountsOpenCalls ==
    /\ stack_pointer \in 0 .. STACK_SIZE
    /\ stack_pointer = Len(open_calls)

\* C16 (as stated): in every state reached by load() and ticks, whatever the
\* program, pc is at least 0x200, so no instruction is fetched from below
\* 0x200.
C16_PcAboveProgramStart ==
    pc >= PC_START

\* C17: after 00E0, from any framebuffer, the framebuffer read through
\* get_display is 64x32 with every pixel off; pc has advanced by 2; the
\* registers, I, the stack, the stack pointer and memory are unchanged.
C17_ClearScreen ==
    Took("op_00e0")
        => /\ outcome = "ok"
           /\ \A p \in Grid : ~Pixel(get_display(Self), p[1], p[2])
           /\ get_display(Self) \subseteq Grid
           /\ pc = prev.pc + 2
           /\ registers = prev.registers
           /\ index = prev.index
           /\ stack = prev.stack
           /\ stack_pointer = prev.stack_pointer
           /\ memory = prev.memory

\* C17 witness: a 00E0 run inside a called routine, after a draw that lit
\* pixels, has left the framebuffer blank.
C17_Witness ==
    /\ Took("op_00e0")
    /\ prev.display # {}
    /\ prev.stack_pointer = 1
    /\ prev.index # 0
    /\ get_display(Self) = {}
    /\ pc = prev.pc + 2

\* C18: a 2nnn at address a with k < 16 entries on the stack stores a + 2 in
\* slot k and changes no other slot, sets the pointer to k + 1 and pc to nnn;
\* a 00EE with k >= 1 entries sets the pointer to k - 1 and pc to the entry
\* in slot k - 1 and changes no slot; and the slots below the pointer always
\* hold the return addresses of the open calls, oldest first, so returns
\* resume after their calls in reverse order of the calls.
C18_CallReturnLifo ==
    /\ (Took("op_2nnn") /\ prev.stack_pointer < STACK_SIZE)
            => /\ outcome = "ok"
               /\ stack[prev.stack_pointer] = prev.pc + 2
               /\ \A i \in 0 .. STACK_SIZE - 1 :
                    i # prev.stack_pointer => stack[i] = prev.stack[i]
               /\ stack_pointer = prev.stack_pointer + 1
               /\ pc = opcode % 4096
    /\ (Took("op_00ee") /\ prev.stack_pointer \in 1 .. STACK_SIZE)
            => /\ outcome = "ok"
               /\ stack_pointer = prev.stack_pointer - 1
               /\ pc = prev.stack[prev.stack_pointer - 1]
               /\ stack = prev.stack
    /\ \A i \in 1 .. Len(open_calls) :
            i <= STACK_SIZE /\ stack[i - 1] = open_calls[i]
    /\ (Took("op_00ee") /\ outcome = "ok")
            => /\ Len(open_calls) = stack_pointer
               /\ pc = stack[stack_pointer]

\* C18 witness: the chain of 16 nested calls has returned 16 times; the last
\* return left the stack empty and resumed after the first call, at 0x202.
C18_Witness ==
    /\ rom = Image(Nest(16))
    /\ Took("op_00ee")
    /\ outcome = "ok"
    /\ steps = 32
    /\ prev.stack_pointer = 1
    /\ stack_pointer = 0
    /\ open_calls = << >>
    /\ pc = PC_START + 2

SkipHandlers == {"op_3xnn", "op_4xnn", "op_5xy0", "op_9xy0"}

\* Whether the handler h, run on the Cpu self for the word w, skipped: it
\* left pc four past where it found it.
Skips(h, self, w) ==
    LET x == (w \div 256) % 16
        y == (w \div 16) % 16
        nn == w % 256
        r == CASE h = "op_3xnn" -> op_3xnn(self, x, nn)
               [] h = "op_4xnn" -> op_4xnn(self, x, nn)
               [] h = "op_5xy0" -> op_5xy0(self, x, y)
               [] h = "op_9xy0" -> op_9xy0(self, x, y)
    IN  r.cpu.pc = self.pc + 4

\* C19: 3xnn, 4xnn, 5xy0 and 9xy0 change nothing but pc: 3xnn adds 4 when
\* Vx = nn and 2 otherwise, 4xnn adds 4 when Vx # nn and 2 otherwise, 5xy0
\* adds 4 when Vx = Vy and 2 otherwise, 9xy0 adds 4 when Vx # Vy and 2
\* otherwise; on the same state and operands exactly one of 3xnn and 4xnn
\* skips and exactly one of 5xy0 and 9xy0 skips.
C19_SkipsMovePcOnly ==
    (phase = "ticking" /\ handler \in SkipHandlers)
        => LET vx == prev.registers[OpX]
               vy == prev.registers[OpY]
               nn == opcode % 256
               taken == CASE handler = "op_3xnn" -> vx = nn
                          [] handler = "op_4xnn" -> vx # nn
                          [] handler = "op_5xy0" -> vx = vy
                          [] handler = "op_9xy0" -> vx # vy
           IN  /\ outcome = "ok"
               /\ pc = prev.pc + (IF taken THEN 4 ELSE 2)
               /\ registers = prev.registers
               /\ index = prev.index
               /\ stack = prev.stack
               /\ stack_pointer = prev.stack_pointer
               /\ memory = prev.memory
               /\ display = prev.display
               /\ Skips("op_3xnn", Before, opcode) # Skips("op_4xnn", Before, opcode)
               /\ Skips("op_5xy0", Before, opcode) # Skips("op_9xy0", Before, opcode)

\* C19 witness: a 4xnn whose Vx differs from nn skipped, inside a called
\* routine, with a pixel on and I set, none of which it changed.
C19_Witness ==
    /\ Took("op_4xnn")
    /\ prev.registers[OpX] = 255
    /\ opcode % 256 = 7
    /\ pc = prev.pc + 4
    /\ ~Skips("op_3xnn", Before, opcode)
    /\ stack_pointer = 1
    /\ index = 5
    /\ display # {}

\* C20: after Dxyn, VF is 1 if at least one pixel that was on before the draw
\* is off after it and 0 otherwise, whatever VF held before; a draw onto a
\* framebuffer with every pixel off, or with n = 0, leaves VF = 0.
C20_CollisionFlag ==
    Took("op_dxyn")
        => /\ registers[15] = (IF prev.display \ display # {} THEN 1 ELSE 0)
           /\ (prev.display = {} \/ OpN = 0) => registers[15] = 0
           /\ \A r \in 0 .. NUM_REGISTERS - 2 : registers[r] = prev.registers[r]

\* C20 witness: a draw with VF = 0 before it turned off a pixel that was on
\* and left VF = 1.
C20_Witness ==
    /\ Took("op_dxyn")
    /\ outcome = "ok"
    /\ OpN > 0
    /\ prev.registers[15] = 0
    /\ prev.display \ display # {}
    /\ registers[15] = 1

\* C21 (as stated): a tick that fetches Bnnn takes the Bnnn arm and not the
\* unexpected-opcode arm, sets pc to V0 + nnn as a 16-bit sum (not reduced
\* modulo 4096) and changes no register, I, stack, memory or framebuffer
\* state.
C21_BnnnDecoded ==
    (phase = "ticking" /\ opcode # NoOpcode /\ opcode \div 4096 = 11)
        => /\ handler = "op_bnnn"
           /\ outcome = "ok"
           /\ pc = prev.registers[0] + (opcode % 4096)
           /\ registers = prev.registers
           /\ index = prev.index
           /\ stack = prev.stack
           /\ stack_pointer = prev.stack_pointer
           /\ memory = prev.memory
           /\ display = prev.display

\* The handlers whose only panic is a memory index past the end of the array
\* ("none": the tick panicked in fetch_opcode, before any handler).
MemoryHandlers == {"none", "op_dxyn", "op_fx33", "op_fx55", "op_fx65"}

\* C22 (as stated): every memory access of a tick is at an address in
\* 0..4095 (the fetch reads at pc and pc + 1, the Dxyn reads at I + row, the
\* Fx33 writes at I..I + 2, the Fx55 and Fx65 accesses at I..I + x) and no
\* tick ends in an out-of-range array access.
C22_MemoryAccessInRange ==
    phase = "ticking"
        => /\ prev.pc + 1 <= MEMORY_SIZE - 1
           /\ (Took("op_dxyn") /\ OpN > 0)
                => prev.index + OpN - 1 <= MEMORY_SIZE - 1
           /\ Took("op_fx33") => prev.index + 2 <= MEMORY_SIZE - 1
           /\ handler \in {"op_fx55", "op_fx65"}
                => prev.index + OpX <= MEMORY_SIZE - 1
           /\ ~(handler \in MemoryHandlers /\ outcome = "panic")

\* From this state on the last tick returned and did not run Fx15.
QuietTick == phase = "ticking" /\ outcome = "ok" /\ handler # "op_fx15"

\* C23: under a driver that keeps calling tick(), if from some point on every
\* tick returns and none runs Fx15, the delay timer eventually is 0 and stays
\* 0; and after k ticks in a row that returned without running Fx15 the
\* timer is at most 255 - k, so it is 0 after at most 255 of them.
C23_TimerRunsOut ==
    /\ [](delay_timer <= U8 - 1 - quiet)
    /\ (<>[]QuietTick) => <>[](delay_timer = 0)

\* C23 witness: the program 60FF F015 1204 after the Fx15 and 255 further
\* ticks: the timer, set to 255, has just gone from 1 to 0.
C23_Witness ==
    /\ rom = Image(<< Word(6, 0, 15, 15), Word(15, 0, 1, 5), Word(1, 2, 0, 4) >>)
    /\ QuietTick
    /\ quiet = U8 - 1
    /\ prev.delay_timer = 1
    /\ delay_timer = 0

====
